---- MODULE Spec2Model ----
(***************************************************************************)
(* Route Finder: the planner session of src/Components/MapComponent.js.    *)
(*                                                                         *)
(* The session is the single state object of useRoutePlanner.  Every       *)
(* action is one JavaScript task: an event handler (or the continuation of *)
(* an async function after its await), the render it causes, and the       *)
(* useEffect that runs after that render.  Network calls in flight are     *)
(* records in the pending* bags; the completion of one is a separate       *)
(* action that may interleave with any user action, in any order.          *)
(***************************************************************************)
EXTENDS Integers, Sequences, FiniteSets, Bags, TLC

VARIABLES state, pendingRoutes, pendingNames, pendingSearch, orsKey

vars == <<state, pendingRoutes, pendingNames, pendingSearch, orsKey>>

-----------------------------------------------------------------------------
(* Bounds of the model.                                                    *)

\* Largest number of route features in one directions response.
MaxFeatures == 2
\* Largest number of geocoding calls (reverse and forward) in flight.
MaxPendingGeocoding == 1
\* Largest number of directions requests in flight (direct fetchRoute calls).
MaxPendingRoutes == 1

-----------------------------------------------------------------------------
(* Values.                                                                 *)

\* JavaScript null, the absent origin / destination.
Null == [null |-> TRUE]

\* Coordinates in hundredths of a degree.
PointA == [lat |-> 5150, lng |-> -10]
PointB == [lat |-> 5151, lng |-> -8]
Points == {PointA, PointB}

\* The travel modes the user picks, two of the three options of the select.
Modes == {"driving-car", "cycling-regular"}

\* process.env.REACT_APP_ORS_API_KEY || ""
OrsKeys == {"", "ors-key"}

UnknownLocation == "Unknown Location"

\* data.display_name of a reverse-geocoding answer; "" when it has none.
DisplayNames == {"Place A", ""}

\* The position the browser's geolocation reports.
DevicePosition == PointA

\* Search box contents the user types: one too short to search, two searched.
SearchTerms == {"lo", "lon", "lond"}

\* Forward-geocoding result lists.
SearchData ==
  { <<>>,
    << [lat |-> PointB.lat, lon |-> PointB.lng, display_name |-> "Place B"],
       [lat |-> PointA.lat, lon |-> PointA.lng, display_name |-> "Place A"] >> }

\* Route feature number k of a directions response: geometry as [lng, lat]
\* pairs, summary distance in meters and duration in seconds.
Feature(k) ==
  [coordinates |-> << <<-10, 5150>>, <<-8 - k, 5151 + k>>, <<-8, 5151>> >>,
   distance |-> 5200 - 200 * k,
   duration |-> 550 + 50 * k]

\* data.features of a 2xx response: the first n features, n = 0 included.
FeatureLists == { [k \in 1..n |-> Feature(k)] : n \in 0..MaxFeatures }

\* summary.distance values, in meters, of the features of ConversionFeatureLists.
Meters == {5, 125, 1005, 5000, 12345}

\* summary.duration values, in seconds, of the same features.
Seconds == {600, 987, 650}

\* data.features of 2xx responses with one feature, of each distance and
\* duration above.
ConversionFeatureLists ==
  { << [coordinates |-> << <<-10, 5150>>, <<-8, 5151>> >>,
        distance |-> m, duration |-> d] >> : m \in Meters, d \in Seconds }

\* error.message of a rejected axios.post.
NetworkErrors == {"Network Error"}

-----------------------------------------------------------------------------
(* useRoutePlanner: state and updateState.                                 *)

InitialState ==
  [origin |-> Null, destination |-> Null,
   originName |-> "", destinationName |-> "",
   routes |-> <<>>, selectedRouteIndex |-> 0,
   distance |-> "", duration |-> "",
   searchTerm |-> "", searchResults |-> <<>>,
   mode |-> "driving-car",
   isLoadingRoute |-> FALSE, routeError |-> ""]

\* setState((prev) => ({ ...prev, ...updates }))
updateState(prev, updates) ==
  [k \in DOMAIN prev |-> IF k \in DOMAIN updates THEN updates[k] ELSE prev[k]]

-----------------------------------------------------------------------------
(* Number.prototype.toFixed(2) of the double num / den, num and den        *)
(* non-negative integers.                                                  *)

\* Inputs whose quotient lies exactly half way between two hundredths and
\* whose double is not below the exact quotient (IEEE-754 binary64 division),
\* among the inputs of Feature, Meters and Seconds.  For the other half-way
\* inputs among them (1005 / 1000) the double is below the quotient.
DoubleNotBelowTie == { <<5, 1000>>, <<25, 1000>>, <<125, 1000>>, <<12345, 1000>> }

\* The integer n for which n / 100 is closest to the double num / den; of two
\* equally close the larger.
Hundredths(num, den) ==
  LET q == 100 * num
      n == q \div den
      r == q % den
  IN IF 2 * r > den THEN n + 1
     ELSE IF 2 * r < den THEN n
     ELSE IF <<num, den>> \in DoubleNotBelowTie THEN n + 1
     ELSE n

TwoDigits(d) == IF d < 10 THEN "0" \o ToString(d) ELSE ToString(d)

toFixed2(num, den) ==
  LET n == Hundredths(num, den)
  IN ToString(n \div 100) \o "." \o TwoDigits(n % 100)

-----------------------------------------------------------------------------
(* fetchRoute and the effect that calls it.                                *)

\* feature.geometry.coordinates.map(([lng, lat]) => ({ lat, lng }))
MapCoordinates(coordinates) ==
  [i \in 1..Len(coordinates) |-> [lat |-> coordinates[i][2], lng |-> coordinates[i][1]]]

RouteOfFeature(feature) ==
  [coordinates |-> MapCoordinates(feature.coordinates),
   distance |-> toFixed2(feature.distance, 1000),
   duration |-> toFixed2(feature.duration, 60)]

\* RoutesOfFeatures with the candidates in reverse order.
RoutesOfFeaturesReversed(features) ==
  [i \in 1..Len(features) |-> RouteOfFeature(features[Len(features) + 1 - i])]

\* data.features.map(...)
RoutesOfFeatures(features) ==
  [i \in 1..Len(features) |-> RouteOfFeature(features[i])]

\* The body of the directions request: what the request was made for.
RouteRequest(st) ==
  [origin |-> st.origin, destination |-> st.destination, mode |-> st.mode]

\* MissingPoint without its test of the destination.
MissingPointOriginOnly(st) == st.origin = Null

\* !origin || !destination
MissingPoint(st) == st.origin = Null \/ st.destination = Null

\* FetchStartUpdates leaving the error message.
FetchStartUpdatesKeepError ==
  [isLoadingRoute |-> TRUE, routes |-> <<>>, distance |-> "", duration |-> ""]

\* FetchStartUpdates leaving the displayed distance and duration.
FetchStartUpdatesKeepDisplay ==
  [isLoadingRoute |-> TRUE, routeError |-> "", routes |-> <<>>]

\* Updates of fetchRoute before its request goes out.
FetchStartUpdates ==
  [isLoadingRoute |-> TRUE, routeError |-> "", routes |-> <<>>,
   distance |-> "", duration |-> ""]

\* fetchRoute clearing the route list when it rejects for a missing point.
fetchRouteRejectClearing(st, key) ==
  IF MissingPoint(st)
  THEN [state |-> updateState(st, [routeError |-> "Please set both origin and destination.",
                                   routes |-> <<>>]),
        sent |-> {}]
  ELSE IF key = ""
  THEN [state |-> updateState(st, [routeError |-> "API key is missing."]),
        sent |-> {}]
  ELSE [state |-> updateState(st, FetchStartUpdates),
        sent |-> { RouteRequest(st) }]

\* fetchRoute without its test of the API key.
fetchRouteIgnoringKey(st, key) ==
  IF MissingPoint(st)
  THEN [state |-> updateState(st, [routeError |-> "Please set both origin and destination."]),
        sent |-> {}]
  ELSE [state |-> updateState(st, FetchStartUpdates),
        sent |-> { RouteRequest(st) }]

\* fetchRoute up to its await: the state it leaves and the requests it sends.
fetchRoute(st, key) ==
  IF MissingPoint(st)
  THEN [state |-> updateState(st, [routeError |-> "Please set both origin and destination."]),
        sent |-> {}]
  ELSE IF key = ""
  THEN [state |-> updateState(st, [routeError |-> "API key is missing."]),
        sent |-> {}]
  ELSE [state |-> updateState(st, FetchStartUpdates),
        sent |-> { RouteRequest(st) }]

\* EffectCondition without its test of the loading flag.
EffectConditionIgnoringLoading(st) ==
  st.origin # Null /\ st.destination # Null

\* state.origin && state.destination && !state.isLoadingRoute
EffectCondition(st) ==
  st.origin # Null /\ st.destination # Null /\ ~st.isLoadingRoute

\* The effect of useRoutePlanner after a render with state st; depsChanged
\* says whether mode, origin or destination differ from the previous render.
useEffect(st, depsChanged, key) ==
  IF depsChanged /\ EffectCondition(st)
  THEN fetchRoute(st, key)
  ELSE [state |-> st, sent |-> {}]

\* A handler has left the state st: render, run the effect, commit.
Render(st, depsChanged) ==
  LET r == useEffect(st, depsChanged, orsKey)
  IN /\ state' = r.state
     /\ pendingRoutes' = pendingRoutes (+) SetToBag(r.sent)

\* FetchSuccessUpdates without its selectedRouteIndex: 0.
FetchSuccessUpdatesKeepIndex(routes) ==
  [routes |-> routes,
   distance |-> routes[1].distance \o " km",
   duration |-> routes[1].duration \o " min"]

\* Updates of the success branch of fetchRoute (routes is non-empty).
FetchSuccessUpdates(routes) ==
  [routes |-> routes, selectedRouteIndex |-> 0,
   distance |-> routes[1].distance \o " km",
   duration |-> routes[1].duration \o " min"]

\* FetchFailureUpdates storing no message.
FetchFailureUpdatesNoMessage(message) == [routeError |-> ""]

\* Updates of the catch branch of fetchRoute: message is error.message.
FetchFailureUpdates(message) ==
  [routeError |-> "Failed to fetch route: " \o message]

\* FetchFinallyUpdates leaving the loading flag set.
FetchFinallyUpdatesStillLoading == [isLoadingRoute |-> TRUE]

\* Updates of the finally branch of fetchRoute.
FetchFinallyUpdates == [isLoadingRoute |-> FALSE]

\* fetchRoute after its await, for a 2xx response carrying features.
fetchRouteResolved(st, features) ==
  LET outcome == IF Len(features) = 0
                 THEN updateState(st, FetchFailureUpdates("No routes found."))
                 ELSE updateState(st, FetchSuccessUpdates(RoutesOfFeatures(features)))
  IN updateState(outcome, FetchFinallyUpdates)

\* fetchRoute after its await, for a rejected request.
fetchRouteRejected(st, message) ==
  updateState(updateState(st, FetchFailureUpdates(message)), FetchFinallyUpdates)

\* A call goes out.
Send(pending, call) == pending (+) SetToBag({call})

\* The promise of a call settles.
Settle(pending, call) == pending (-) SetToBag({call})

\* The number of calls to the geocoder (axios.get) not yet settled.
GeocodingInFlight == BagCardinality(pendingNames) + BagCardinality(pendingSearch)

Init ==
  /\ state = InitialState
  /\ pendingRoutes = EmptyBag
  /\ pendingNames = EmptyBag
  /\ pendingSearch = EmptyBag
  /\ orsKey \in OrsKeys

-----------------------------------------------------------------------------
(* User actions.                                                           *)

\* A reverse-geocoding call started by fetchLocationName(latlng, setName): the
\* state field its setName writes and what the caller does after its await.
\* The answer does not depend on latlng in this model, so the call omits it.
NameCall(field, latlng, after) == [field |-> field, after |-> after]

\* ClickSlot with its branches exchanged.
ClickSlotSwapped(origin) == IF origin = Null THEN "destination" ELSE "origin"

\* LocationMarker, if (!origin): the state field a map click writes.
ClickSlot(origin) == IF origin = Null THEN "origin" ELSE "destination"

\* LocationMarker: click on the map.
MapClick(latlng) ==
  /\ GeocodingInFlight < MaxPendingGeocoding
  /\ LET slot == ClickSlot(state.origin)
     IN /\ Render(updateState(state, [k \in {slot} |-> latlng]), TRUE)
        /\ pendingNames' = Send(pendingNames, NameCall(slot \o "Name", latlng, "return"))
  /\ UNCHANGED <<pendingSearch, orsKey>>

\* SelectSlot with its branches exchanged.
SelectSlotSwapped(st) == IF st.origin = Null THEN "destination" ELSE "origin"

\* selectLocation, if (!state.origin): the state field a search selection writes.
SelectSlot(st) == IF st.origin = Null THEN "origin" ELSE "destination"

\* selectLocation: click on entry number index (from 1) of the search results.
selectLocation(index) ==
  /\ index \in 1..Len(state.searchResults)
  /\ GeocodingInFlight < MaxPendingGeocoding
  /\ LET result == state.searchResults[index]
         location == [lat |-> result.lat, lng |-> result.lon]
         slot == SelectSlot(state)
     IN /\ Render(updateState(state, [k \in {slot} |-> location]), TRUE)
        /\ pendingNames' = Send(pendingNames, NameCall(slot \o "Name", location, "clearSearch"))
  /\ UNCHANGED <<pendingSearch, orsKey>>

\* setCurrentLocation: the success callback of getCurrentPosition.
setCurrentLocation(location) ==
  /\ GeocodingInFlight < MaxPendingGeocoding
  /\ Render(updateState(state, [origin |-> location]), TRUE)
  /\ pendingNames' = Send(pendingNames, NameCall("originName", location, "return"))
  /\ UNCHANGED <<pendingSearch, orsKey>>

\* onChange of the travel-mode select.
SetMode(m) ==
  /\ m # state.mode
  /\ Render(updateState(state, [mode |-> m]), TRUE)
  /\ UNCHANGED <<pendingNames, pendingSearch, orsKey>>

\* disabled={!state.origin || !state.destination || state.isLoadingRoute}
GetRouteDisabled(st) == st.origin = Null \/ st.destination = Null \/ st.isLoadingRoute

\* The Get Route button: onClick={fetchRoute}.
GetRoute ==
  /\ ~GetRouteDisabled(state)
  /\ LET r == fetchRoute(state, orsKey)
     IN /\ state' = r.state
        /\ pendingRoutes' = pendingRoutes (+) SetToBag(r.sent)
  /\ UNCHANGED <<pendingNames, pendingSearch, orsKey>>

\* updateState as returned by useRoutePlanner, called by a client of the hook
\* to write origin or destination: updateState({ origin: val }).  A coordinate
\* is a new object, so the effect's dependencies change; null is no change
\* when the field is null already.
UpdatePoint(field, value) ==
  /\ value = Null => state[field] # Null
  /\ Render(updateState(state, [k \in {field} |-> value]), TRUE)
  /\ UNCHANGED <<pendingNames, pendingSearch, orsKey>>

\* fetchRoute as returned by useRoutePlanner, called by a client of the hook
\* in whatever state the session is in.
FetchRouteCall ==
  /\ BagCardinality(pendingRoutes) < MaxPendingRoutes
  /\ LET r == fetchRoute(state, orsKey)
     IN /\ state' = r.state
        /\ pendingRoutes' = pendingRoutes (+) SetToBag(r.sent)
  /\ UNCHANGED <<pendingNames, pendingSearch, orsKey>>

\* HandleRouteChangeUpdates displaying the first candidate whatever the index.
HandleRouteChangeUpdatesFirst(st, index) ==
  [selectedRouteIndex |-> index,
   distance |-> st.routes[1].distance \o " km",
   duration |-> st.routes[1].duration \o " min"]

\* handleRouteChange's updates: index counts from 0, sequences from 1.
HandleRouteChangeUpdates(st, index) ==
  [selectedRouteIndex |-> index,
   distance |-> st.routes[index + 1].distance \o " km",
   duration |-> st.routes[index + 1].duration \o " min"]

\* handleRouteChange: click on the button of route number index (from 0).
handleRouteChange(index) ==
  /\ index \in 0..(Len(state.routes) - 1)
  /\ Render(updateState(state, HandleRouteChangeUpdates(state, index)), FALSE)
  /\ UNCHANGED <<pendingNames, pendingSearch, orsKey>>

\* ResetUpdates without the search fields.
ResetUpdatesKeepSearch ==
  [origin |-> Null, destination |-> Null,
   originName |-> "", destinationName |-> "",
   routes |-> <<>>, selectedRouteIndex |-> 0,
   distance |-> "", duration |-> "",
   routeError |-> ""]

\* ResetUpdates also restoring the initial travel mode.
ResetUpdatesRestoringMode ==
  [origin |-> Null, destination |-> Null,
   originName |-> "", destinationName |-> "",
   routes |-> <<>>, selectedRouteIndex |-> 0,
   distance |-> "", duration |-> "",
   routeError |-> "",
   searchTerm |-> "", searchResults |-> <<>>,
   mode |-> "driving-car"]

\* The updates of resetRoute.
ResetUpdates ==
  [origin |-> Null, destination |-> Null,
   originName |-> "", destinationName |-> "",
   routes |-> <<>>, selectedRouteIndex |-> 0,
   distance |-> "", duration |-> "",
   routeError |-> "",
   searchTerm |-> "", searchResults |-> <<>>]

\* resetRoute: the Reset button.
resetRoute ==
  /\ Render(updateState(state, ResetUpdates),
            state.origin # Null \/ state.destination # Null)
  /\ UNCHANGED <<pendingNames, pendingSearch, orsKey>>

\* A forward-geocoding call started by handleSearch for the query term.  The
\* answer does not depend on term in this model, so the call omits it.
SearchCall(term) == [api |-> "search"]

\* handleSearch searching from 2 characters on.
handleSearchFromTwo(term) ==
  /\ term # state.searchTerm
  /\ LET typed == updateState(state, [searchTerm |-> term])
     IN IF Len(term) < 2
        THEN /\ Render(updateState(typed, [searchResults |-> <<>>]), FALSE)
             /\ UNCHANGED pendingSearch
        ELSE /\ GeocodingInFlight < MaxPendingGeocoding
             /\ Render(typed, FALSE)
             /\ pendingSearch' = Send(pendingSearch, SearchCall(term))
  /\ UNCHANGED <<pendingNames, orsKey>>

\* handleSearch up to its await: onChange of the search box.
handleSearch(term) ==
  /\ term # state.searchTerm
  /\ LET typed == updateState(state, [searchTerm |-> term])
     IN IF Len(term) < 3
        THEN /\ Render(updateState(typed, [searchResults |-> <<>>]), FALSE)
             /\ UNCHANGED pendingSearch
        ELSE /\ GeocodingInFlight < MaxPendingGeocoding
             /\ Render(typed, FALSE)
             /\ pendingSearch' = Send(pendingSearch, SearchCall(term))
  /\ UNCHANGED <<pendingNames, orsKey>>

-----------------------------------------------------------------------------
(* Completion of network calls.                                            *)

\* The directions request req is answered 2xx with these features.
RouteResponse(req, features) ==
  /\ BagIn(req, pendingRoutes)
  /\ state' = fetchRouteResolved(state, features)
  /\ pendingRoutes' = Settle(pendingRoutes, req)
  /\ UNCHANGED <<pendingNames, pendingSearch, orsKey>>

\* The directions request req fails (network failure, non-2xx).
RouteFailure(req, message) ==
  /\ BagIn(req, pendingRoutes)
  /\ state' = fetchRouteRejected(state, message)
  /\ pendingRoutes' = Settle(pendingRoutes, req)
  /\ UNCHANGED <<pendingNames, pendingSearch, orsKey>>

\* The caller of fetchLocationName after its await.
AfterName(st, after) ==
  IF after = "clearSearch"
  THEN updateState(st, [searchResults |-> <<>>, searchTerm |-> ""])
  ELSE st

\* NameResolved without the fallback name.
NameResolvedNoFallback(failed, displayName) == displayName

\* fetchLocationName after its await: displayName is data.display_name, ""
\* when the answer has none; failed when axios.get rejected.
NameResolved(failed, displayName) ==
  IF failed \/ displayName = "" THEN UnknownLocation ELSE displayName

\* A reverse-geocoding call settles: setName, then the caller's continuation.
NameCompletion(call, failed, displayName) ==
  /\ BagIn(call, pendingNames)
  /\ LET name == NameResolved(failed, displayName)
         named == updateState(state, [k \in {call.field} |-> name])
     IN Render(AfterName(named, call.after), FALSE)
  /\ pendingNames' = Settle(pendingNames, call)
  /\ UNCHANGED <<pendingSearch, orsKey>>

\* handleSearch after its await, the request answered with data.
SearchResponse(call, data) ==
  /\ BagIn(call, pendingSearch)
  /\ Render(updateState(state, [searchResults |-> data]), FALSE)
  /\ pendingSearch' = Settle(pendingSearch, call)
  /\ UNCHANGED <<pendingNames, orsKey>>

\* handleSearch after its await, the request rejected: logged only.
SearchFailure(call) ==
  /\ BagIn(call, pendingSearch)
  /\ pendingSearch' = Settle(pendingSearch, call)
  /\ UNCHANGED <<state, pendingRoutes, pendingNames, orsKey>>

-----------------------------------------------------------------------------
(* Specifications.                                                         *)

\* The application: MapComponent driven through its user interface.
Next ==
  \/ \E latlng \in Points : MapClick(latlng)
  \/ \E index \in 1..Len(state.searchResults) : selectLocation(index)
  \/ setCurrentLocation(DevicePosition)
  \/ \E m \in Modes : SetMode(m)
  \/ GetRoute
  \/ \E index \in 0..(Len(state.routes) - 1) : handleRouteChange(index)
  \/ resetRoute
  \/ \E term \in SearchTerms : handleSearch(term)
  \/ \E req \in BagToSet(pendingRoutes), features \in FeatureLists :
       RouteResponse(req, features)
  \/ \E req \in BagToSet(pendingRoutes), message \in NetworkErrors :
       RouteFailure(req, message)
  \/ \E call \in BagToSet(pendingNames), failed \in BOOLEAN, displayName \in DisplayNames :
       /\ failed => displayName = ""
       /\ NameCompletion(call, failed, displayName)
  \/ \E call \in BagToSet(pendingSearch), data \in SearchData : SearchResponse(call, data)
  \/ \E call \in BagToSet(pendingSearch) : SearchFailure(call)

Spec == Init /\ [][Next]_vars

\* The hook useRoutePlanner on its own, with any client: one that writes
\* origin, destination and mode through updateState and calls fetchRoute in
\* whatever state the session is in.
NextHook ==
  \/ \E field \in {"origin", "destination"}, value \in Points \cup {Null} :
       UpdatePoint(field, value)
  \/ \E m \in Modes : SetMode(m)
  \/ FetchRouteCall
  \/ \E req \in BagToSet(pendingRoutes), features \in FeatureLists :
       RouteResponse(req, features)
  \/ \E req \in BagToSet(pendingRoutes), message \in NetworkErrors :
       RouteFailure(req, message)

SpecHook == Init /\ [][NextHook]_vars

\* The hook with a client that sets the points and calls fetchRoute, and a
\* directions service that answers with one feature of any of the distances
\* Meters and durations Seconds: the inputs of the two conversions.
NextConversion ==
  \/ \E field \in {"origin", "destination"}, value \in Points \cup {Null} :
       UpdatePoint(field, value)
  \/ FetchRouteCall
  \/ \E req \in BagToSet(pendingRoutes), features \in ConversionFeatureLists :
       RouteResponse(req, features)

SpecConversion == Init /\ [][NextConversion]_vars

\* The promise of an outstanding directions request settles.
RouteDelivery ==
  \/ \E req \in BagToSet(pendingRoutes), features \in FeatureLists :
       RouteResponse(req, features)
  \/ \E req \in BagToSet(pendingRoutes), message \in NetworkErrors :
       RouteFailure(req, message)

\* The hook with a network that answers or fails every directions request:
\* the promise of axios.post settles, and the event loop then runs the rest
\* of fetchRoute.
SpecHookFair == SpecHook /\ WF_vars(RouteDelivery)

-----------------------------------------------------------------------------
(* Properties.                                                             *)

BothPointsSet(st) == st.origin # Null /\ st.destination # Null

\* The request req is answered, successfully or not, in this step.
RouteCompletion(req) ==
  \/ \E features \in FeatureLists : RouteResponse(req, features)
  \/ \E message \in NetworkErrors : RouteFailure(req, message)

\* This step sends exactly one directions request, req.
Issues(req) == pendingRoutes' = Send(pendingRoutes, req)

\* The directions requests this step sends.
Sent == { req \in BagToSet(pendingRoutes') :
            CopiesIn(req, pendingRoutes') > CopiesIn(req, pendingRoutes) }

\* This step is a map click or a search selection of the coordinate latlng
\* (both start a name resolution, which is tested first).
PointSelection(latlng) ==
  /\ BagCardinality(pendingNames') > BagCardinality(pendingNames)
  /\ \/ MapClick(latlng)
     \/ \E index \in 1..Len(state.searchResults) :
          /\ selectLocation(index)
          /\ latlng = [lat |-> state.searchResults[index].lat,
                       lng |-> state.searchResults[index].lon]

\* The coordinates a map click or a search selection can carry.
SelectableCoordinates ==
  Points \cup UNION { { [lat |-> data[index].lat, lng |-> data[index].lon] :
                          index \in 1..Len(data) } : data \in SearchData }

\* C1: a directions response for a request whose (origin, destination, mode)
\* differs from the session's current triple leaves the route list, the
\* selected index and the displayed distance and duration unchanged.
StaleResponseDiscarded ==
  [][\A req \in BagToSet(pendingRoutes) :
       /\ pendingRoutes' = Settle(pendingRoutes, req)
       /\ req # RouteRequest(state)
       /\ RouteCompletion(req)
       => /\ state'.routes = state.routes
          /\ state'.selectedRouteIndex = state.selectedRouteIndex
          /\ state'.distance = state.distance
          /\ state'.duration = state.duration]_vars

\* C2: a step that sends a directions request sends it for an origin and a
\* destination that are both present, those of the session; this holds for the
\* effect, the Get Route button and a direct call of fetchRoute.
FetchOnlyWithBothPoints ==
  [][\A req \in Sent :
       /\ req.origin # Null
       /\ req.destination # Null
       /\ req.origin = state'.origin
       /\ req.destination = state'.destination]_vars

\* fetchRoute was called with a point absent: it was rejected, nothing sent.
FetchRejectedForMissingPoint ==
  /\ MissingPoint(state)
  /\ state.routeError = "Please set both origin and destination."
  /\ pendingRoutes = EmptyBag
  /\ ~state.isLoadingRoute

\* C3: with both points set and a key configured, changing the travel mode
\* sends a directions request for the new mode and leaves the session loading,
\* whatever the state it is changed in (Ready, RouteLoading, RouteReady,
\* RouteFailed).
ModeChangeRefetches ==
  [][\A m \in Modes :
       BothPointsSet(state) /\ orsKey # "" /\ SetMode(m)
       => /\ state'.isLoadingRoute
          /\ Issues([origin |-> state.origin, destination |-> state.destination,
                     mode |-> m])]_vars

\* C4: immediately after a reset, from any state, origin and destination are
\* absent, both names are empty, the route list is empty, the selected index
\* is 0, distance, duration and error message are empty, and the search query
\* and results are empty.
ResetClearsFields ==
  [][resetRoute
     => /\ state'.origin = Null
        /\ state'.destination = Null
        /\ state'.originName = ""
        /\ state'.destinationName = ""
        /\ state'.routes = <<>>
        /\ state'.selectedRouteIndex = 0
        /\ state'.distance = ""
        /\ state'.duration = ""
        /\ state'.routeError = ""
        /\ state'.searchTerm = ""
        /\ state'.searchResults = <<>>]_vars

\* A reset was taken while a directions request was outstanding.
ResetWhileRequestOutstanding ==
  /\ pendingRoutes # EmptyBag
  /\ state.origin = Null
  /\ state.destination = Null
  /\ state.originName = ""
  /\ state.routes = <<>>
  /\ state.routeError = ""
  /\ state.searchTerm = ""

\* C5: immediately after a reset the route list is empty, the error message
\* is empty and the loading flag is false, whatever state it was taken from.
ResetClearsStatusFlags ==
  [][resetRoute
     => /\ state'.routes = <<>>
        /\ state'.routeError = ""
        /\ ~state'.isLoadingRoute]_vars

\* The session st lists exactly the candidates of features, in their order,
\* with candidate 0 selected and displayed.
CandidatesStored(st, features) ==
  /\ Len(st.routes) = Len(features)
  /\ \A k \in 1..Len(features) :
       /\ st.routes[k].distance = toFixed2(features[k].distance, 1000)
       /\ st.routes[k].duration = toFixed2(features[k].duration, 60)
       /\ Len(st.routes[k].coordinates) = Len(features[k].coordinates)
  /\ st.selectedRouteIndex = 0
  /\ st.distance = st.routes[1].distance \o " km"
  /\ st.duration = st.routes[1].duration \o " min"

\* C6: a response with a non-empty feature list leaves exactly the candidates
\* of its features, in response order, selected index 0, and the distance and
\* duration of candidate 0 displayed: in every state with a request
\* outstanding, the state that RouteResponse leaves for any such list
\* (fetchRouteResolved) is that one.
FetchSuccessStoresCandidates ==
  \A req \in BagToSet(pendingRoutes), features \in FeatureLists :
    Len(features) > 0
    => CandidatesStored(fetchRouteResolved(state, features), features)

\* Two candidates of 5000 m / 600 s and 4800 m / 650 s were received.
TwoCandidatesReceived ==
  /\ Len(state.routes) = 2
  /\ state.routes[1].distance = "5.00"
  /\ state.routes[2].distance = "4.80"
  /\ state.selectedRouteIndex = 0
  /\ state.distance = "5.00 km"
  /\ state.duration = "10.00 min"
  /\ ~state.isLoadingRoute

\* C7: selecting candidate index sets the selected index to it and displays
\* that candidate's distance and duration; it sends no request and leaves the
\* route list, origin, destination, mode, loading flag and error unchanged.
RouteChangeOnlySelects ==
  [][\A index \in 0..(Len(state.routes) - 1) :
       handleRouteChange(index)
       => /\ state'.selectedRouteIndex = index
          /\ state'.distance = state.routes[index + 1].distance \o " km"
          /\ state'.duration = state.routes[index + 1].duration \o " min"
          /\ UNCHANGED <<pendingRoutes, pendingNames, pendingSearch>>
          /\ state'.routes = state.routes
          /\ state'.origin = state.origin
          /\ state'.destination = state.destination
          /\ state'.mode = state.mode
          /\ state'.isLoadingRoute = state.isLoadingRoute
          /\ state'.routeError = state.routeError]_vars

\* The second of two candidates is selected and displayed.
SecondCandidateSelected ==
  /\ Len(state.routes) = 2
  /\ state.selectedRouteIndex = 1
  /\ state.distance = "4.80 km"
  /\ state.duration = "10.83 min"
  /\ pendingRoutes = EmptyBag

\* C8: whenever the route list is non-empty, the selected index is a valid
\* position in it.
SelectedIndexValid ==
  state.routes # <<>> => state.selectedRouteIndex \in 0..(Len(state.routes) - 1)

\* The last candidate of a list of several is the selected one.
LastCandidateSelected ==
  /\ Len(state.routes) > 1
  /\ state.selectedRouteIndex = Len(state.routes) - 1

\* C9 (as claimed): a map click or search selection made while both points are
\* set changes neither origin nor destination and sends no directions request.
SelectionIgnoredWhenBothSet ==
  [][\A latlng \in SelectableCoordinates :
       BothPointsSet(state) /\ PointSelection(latlng)
       => /\ state'.origin = state.origin
          /\ state'.destination = state.destination
          /\ pendingRoutes' = pendingRoutes]_vars

\* C9 (amended): a map click or search selection made while both points are
\* set leaves origin unchanged and replaces destination by the selected
\* coordinate; it sends a directions request, for the new destination, exactly
\* when no route is loading and a key is configured.
SelectionReplacesDestination ==
  [][\A latlng \in SelectableCoordinates :
       BothPointsSet(state) /\ PointSelection(latlng)
       => /\ state'.origin = state.origin
          /\ state'.destination = latlng
          /\ IF ~state.isLoadingRoute /\ orsKey # ""
             THEN Issues([origin |-> state.origin, destination |-> latlng,
                          mode |-> state.mode])
             ELSE pendingRoutes' = pendingRoutes]_vars

\* The destination was replaced while a route was loading: since candidate 1
\* was last selected there was no reset and no successful response, and the
\* outstanding request is for an earlier destination.
DestinationReplacedWhileLoading ==
  /\ state.selectedRouteIndex = 1
  /\ state.routes = <<>>
  /\ state.isLoadingRoute
  /\ BothPointsSet(state)
  /\ BagCardinality(pendingRoutes) = 1
  /\ \A req \in BagToSet(pendingRoutes) :
       req.origin = state.origin /\ req.destination # state.destination

\* C10: with a key configured, a map click or search selection that sets the
\* destination while the origin is present sends a directions request for the
\* current origin, that destination and the current mode, and leaves the
\* session loading.
DestinationSelectionFetches ==
  [][\A latlng \in SelectableCoordinates :
       /\ state.origin # Null
       /\ state.destination = Null
       /\ orsKey # ""
       /\ PointSelection(latlng)
       => /\ state'.destination = latlng
          /\ state'.isLoadingRoute
          /\ Issues([origin |-> state.origin, destination |-> latlng,
                     mode |-> state.mode])]_vars

\* The session st is in RouteFailed with the error message of this failure.
RouteFailedWith(st, message) ==
  /\ st.routeError = "Failed to fetch route: " \o message
  /\ st.routeError # ""
  /\ st.routes = <<>>
  /\ st.distance = ""
  /\ st.duration = ""
  /\ ~st.isLoadingRoute

\* C11: when a directions request fails (network failure, non-2xx answer, or
\* an answer with no feature) the error message is non-empty and carries the
\* underlying message ("No routes found." for an empty feature collection),
\* the route list, distance and duration are empty and the loading flag is
\* false.
RouteFailureEndsFailed ==
  [][\A req \in BagToSet(pendingRoutes) :
       pendingRoutes' = Settle(pendingRoutes, req)
       => /\ \A message \in NetworkErrors :
               RouteFailure(req, message) => RouteFailedWith(state', message)
          /\ RouteResponse(req, <<>>)
             => RouteFailedWith(state', "No routes found.")]_vars

\* A directions request was answered with an empty feature collection.
NoRoutesFoundReported ==
  /\ state.routeError = "Failed to fetch route: No routes found."
  /\ state.routes = <<>>
  /\ ~state.isLoadingRoute
  /\ pendingRoutes = EmptyBag

\* This step calls fetchRoute with both points set: the Get Route button, or
\* the effect after a handler that changed origin, destination or mode.
FetchAttemptedWithBothPoints ==
  \/ GetRoute
  \/ /\ BothPointsSet(state')
     /\ ~state.isLoadingRoute
     /\ \/ \E latlng \in Points : MapClick(latlng)
        \/ \E index \in 1..Len(state.searchResults) : selectLocation(index)
        \/ setCurrentLocation(DevicePosition)
        \/ \E m \in Modes : SetMode(m)

\* C12: with no API key configured, every call of fetchRoute with both points
\* set stores the missing-key message and sends nothing, and no step ever
\* sets the loading flag or sends a directions request.
MissingKeyFailsEveryFetch ==
  [][orsKey = ""
     => /\ ~state'.isLoadingRoute
        /\ pendingRoutes' = EmptyBag
        /\ FetchAttemptedWithBothPoints
           => /\ state'.routeError = "API key is missing."
              /\ state'.routes = state.routes]_vars

\* Without a key a fetch was attempted for an origin and a destination.
MissingKeyReported ==
  /\ orsKey = ""
  /\ BothPointsSet(state)
  /\ state.routeError = "API key is missing."
  /\ ~state.isLoadingRoute
  /\ pendingRoutes = EmptyBag

\* C13: a call of fetchRoute while origin or destination is absent sends no
\* request and changes no field of the session but the error message: routes,
\* selected index, distance, duration, loading flag, points, names, mode and
\* search fields stay as they were.
MissingPointRejectionOnlySetsError ==
  [][MissingPoint(state) /\ FetchRouteCall
     => /\ UNCHANGED <<pendingRoutes, pendingNames, pendingSearch>>
        /\ state'.routeError = "Please set both origin and destination."
        /\ \A field \in DOMAIN state \ {"routeError"} :
             state'[field] = state[field]]_vars

\* fetchRoute was rejected for a missing destination while candidates of an
\* earlier pair were still listed: the rejection left them in place.
RejectedWithCandidatesListed ==
  /\ state.origin # Null
  /\ state.destination = Null
  /\ state.routes # <<>>
  /\ state.routeError = "Please set both origin and destination."

\* C14: handling a search query of fewer than 3 characters sends no
\* forward-geocoding request and leaves the search result list empty.
ShortQueryNeverSearches ==
  [][\A term \in SearchTerms :
       /\ Len(term) < 3
       /\ state.searchTerm # term
       /\ state'.searchTerm = term
       /\ handleSearch(term)
       => /\ pendingSearch' = pendingSearch
          /\ state'.searchResults = <<>>]_vars

\* The two-character query "lo" was handled with nothing in flight.
ShortQueryHandled ==
  /\ state.searchTerm = "lo"
  /\ state.searchResults = <<>>
  /\ pendingSearch = EmptyBag

\* C15: in every reachable state in which the search query has fewer than 3
\* characters the search result list is empty, also when the answer to an
\* earlier, longer query arrives after the short query was entered.
ShortQueryHasNoResults ==
  Len(state.searchTerm) < 3 => state.searchResults = <<>>

\* C16: when a forward-geocoding request (for a query of at least 3
\* characters) fails, the search result list is empty once the failure is
\* handled, and the route error message is unchanged.
SearchFailureYieldsNoResults ==
  [][\A call \in BagToSet(pendingSearch) :
       SearchFailure(call)
       => /\ state'.searchResults = <<>>
          /\ state'.routeError = state.routeError]_vars

\* The name fetchLocationName hands to setName.
ExpectedName(failed, displayName) ==
  IF failed \/ displayName = "" THEN "Unknown Location" ELSE displayName

\* C17: the completion of a reverse-geocoding call, successful or not, writes
\* the name field of its call (the resolved name, or "Unknown Location" when
\* the call failed or the answer has no name) and leaves routes, selected
\* index, distance, duration, loading flag, error message, origin,
\* destination, mode and the other name unchanged; it sends no directions
\* request and settles none, and it leaves the Get Route button as enabled as
\* it was.  Only the continuation of selectLocation writes more: it clears
\* the search fields.  (The frame is stated for every step that settles a
\* name call; the name, contrapositively: no step that writes another name
\* is the completion with that outcome.)
NameResolutionOnlyNames ==
  [][\A call \in BagToSet(pendingNames) :
       /\ BagCardinality(pendingNames') < BagCardinality(pendingNames)
       /\ CopiesIn(call, pendingNames') < CopiesIn(call, pendingNames)
       => /\ \A field \in DOMAIN state \ {call.field, "searchResults", "searchTerm"} :
               state'[field] = state[field]
          /\ call.after = "return"
             => /\ state'.searchResults = state.searchResults
                /\ state'.searchTerm = state.searchTerm
          /\ pendingRoutes' = pendingRoutes
          /\ GetRouteDisabled(state') = GetRouteDisabled(state)
          /\ \A failed \in BOOLEAN, displayName \in DisplayNames :
               state'[call.field] # ExpectedName(failed, displayName)
               => ~NameCompletion(call, failed, displayName)]_vars

\* The origin's name call failed, and the destination's name arrived while
\* the route for the pair was loading.
NameFallbackWhileRouteLoading ==
  /\ state.originName = "Unknown Location"
  /\ state.destinationName = "Place A"
  /\ state.isLoadingRoute
  /\ BothPointsSet(state)
  /\ pendingNames = EmptyBag
  /\ pendingRoutes # EmptyBag

\* C18: once the answer to a directions request is delivered, success or
\* failure, the loading flag is false; and when answers are delivered, a
\* loading session always comes to a state that is not loading, in which the
\* Get Route button is enabled whenever both points are set.
LoadingAlwaysEnds ==
  /\ [][\A req \in BagToSet(pendingRoutes) :
          pendingRoutes' = Settle(pendingRoutes, req) /\ RouteCompletion(req)
          => ~state'.isLoadingRoute]_vars
  /\ state.isLoadingRoute
       ~> (~state.isLoadingRoute /\ (BothPointsSet(state) => ENABLED GetRoute))

\* A directions request failed on the network and left the session with both
\* points set, not loading, nothing outstanding.
NetworkFailureRecovered ==
  /\ state.routeError = "Failed to fetch route: Network Error"
  /\ BothPointsSet(state)
  /\ ~state.isLoadingRoute
  /\ pendingRoutes = EmptyBag

\* C19: in every reachable state in which the route list is non-empty, origin
\* and destination are both present, also after a reset taken while a
\* directions request was outstanding.
RoutesOnlyForPresentPair ==
  state.routes # <<>> => BothPointsSet(state)

\* C20: a map click or a search selection writes origin exactly when origin
\* is absent, and destination otherwise: with origin absent it sets origin to
\* the selected coordinate, leaves destination as it is (absent, in Empty) and
\* sends no directions request; with origin present it leaves origin
\* unchanged and sets destination.
SelectionFillsOriginFirst ==
  [][\A latlng \in SelectableCoordinates :
       PointSelection(latlng)
       => IF state.origin = Null
          THEN /\ state'.origin = latlng
               /\ state'.destination = state.destination
               /\ state.destination = Null
               /\ pendingRoutes' = pendingRoutes
          ELSE /\ state'.origin = state.origin
               /\ state'.destination = latlng]_vars

\* In Empty a search result was selected: it became the origin, its name is
\* being resolved, the destination is absent and no request was sent.
OriginSelectedFromSearch ==
  /\ state.origin # Null
  /\ state.destination = Null
  /\ BagIn([field |-> "originName", after |-> "clearSearch"], pendingNames)
  /\ pendingRoutes = EmptyBag
  /\ ~state.isLoadingRoute

\* num / den rounded to two decimal places, half-way cases up (the rounding
\* of the claim's example, 12345 / 1000 = 12.345 to "12.35"), in decimal
\* notation with two fraction digits.
RoundedToTwoPlaces(num, den) ==
  LET q == 100 * num
      n == IF 2 * (q % den) >= den THEN (q \div den) + 1 ELSE q \div den
  IN ToString(n \div 100) \o "." \o
     (IF n % 100 < 10 THEN "0" \o ToString(n % 100) ELSE ToString(n % 100))

\* C21: for every feature of a successful response the candidate's distance
\* is the feature's meters divided by 1000, and its duration the feature's
\* seconds divided by 60, each rounded to two decimal places.
ConversionRoundsToTwoPlaces ==
  [][\A req \in BagToSet(pendingRoutes), features \in ConversionFeatureLists :
       pendingRoutes' # pendingRoutes /\ RouteResponse(req, features)
       => \A k \in 1..Len(features) :
            /\ state'.routes[k].distance = RoundedToTwoPlaces(features[k].distance, 1000)
            /\ state'.routes[k].duration = RoundedToTwoPlaces(features[k].duration, 60)]_vars

\* C22: in every reachable state of the application at most one directions
\* request is outstanding, and the loading flag is true exactly when one is.
OneRequestWhileLoading ==
  /\ BagCardinality(pendingRoutes) <= 1
  /\ BagCardinality(pendingRoutes) = 1 <=> state.isLoadingRoute

\* The travel mode was changed while a request was outstanding: the request
\* for the earlier mode is the only one, and the session is loading.
ModeChangedWhileLoading ==
  /\ BagCardinality(pendingRoutes) = 1
  /\ state.isLoadingRoute
  /\ BothPointsSet(state)
  /\ \A req \in BagToSet(pendingRoutes) : req.mode # state.mode

\* C23: in every reachable state the displayed distance and duration agree
\* with the route list: both are empty when the list is empty, and otherwise
\* they are the distance and duration of the candidate at the selected index
\* (displayed with their units).
DisplayMatchesSelectedCandidate ==
  IF state.routes = <<>>
  THEN state.distance = "" /\ state.duration = ""
  ELSE /\ state.selectedRouteIndex \in 0..(Len(state.routes) - 1)
       /\ state.distance = state.routes[state.selectedRouteIndex + 1].distance \o " km"
       /\ state.duration = state.routes[state.selectedRouteIndex + 1].duration \o " min"

\* With the second candidate displayed a new fetch for the same pair was
\* started: the list and the display were emptied, the index was left.
RefetchClearedDisplay ==
  /\ state.routes = <<>>
  /\ state.distance = ""
  /\ state.duration = ""
  /\ state.selectedRouteIndex = 1
  /\ state.isLoadingRoute
  /\ pendingRoutes # EmptyBag
  /\ \A req \in BagToSet(pendingRoutes) : req = RouteRequest(state)

\* C24: in every reachable state of the application in which the route error
\* message is non-empty, the route list is empty.
ErrorOnlyWithoutRoutes ==
  state.routeError # "" => state.routes = <<>>

\* After candidates had been listed and the second one selected, a new fetch
\* failed: the error is shown and the list is empty.
FailedAfterRoutesWereListed ==
  /\ state.routeError # ""
  /\ state.routes = <<>>
  /\ state.selectedRouteIndex = 1
  /\ ~state.isLoadingRoute
  /\ BothPointsSet(state)

\* C25: a step that changes mode is a step of the travel-mode selector; reset,
\* point selection, fetch start, fetch success, fetch failure, candidate
\* selection, search and name-resolution steps leave mode as it was.
ModeChangedOnlyBySelector ==
  [][state'.mode # state.mode => \E m \in Modes : SetMode(m)]_vars

\* Reset was pressed while a cycling request was in flight: both points are
\* gone and the mode is still the one the user chose.
ResetKeptChosenMode ==
  /\ state.origin = Null
  /\ state.destination = Null
  /\ state.mode = "cycling-regular"
  /\ state.isLoadingRoute
  /\ \E req \in BagToSet(pendingRoutes) : req.mode = "cycling-regular"

====
